---- MODULE Spec2Model ----
(***************************************************************************)
(* Model of src/main.cpp: the CPU scene container (Scene::addMaterial,     *)
(* Scene::addObject, getGPUData) and the fragment shader's path tracer     *)
(* (random, random_in_unit_sphere, intersect_sphere, intersect_plane,      *)
(* scatter, trace, main).                                                  *)
(*                                                                         *)
(* Number domains.                                                         *)
(*  - uint (the PRNG seed) is a pair <<hi, lo>> of 16-bit halves, so that  *)
(*    the 32-bit wrap-around of the shader's arithmetic is kept exactly.   *)
(*  - random() returns k / 2^24; the model carries the numerator k.        *)
(*  - every other float is a fixed-point integer counting thousandths      *)
(*    (ONE = 1.0), rounded to nearest after each multiplication and        *)
(*    division; vec3 is a triple of such numbers.  The shader's 0.001     *)
(*    thresholds are one unit of this grid.                                *)
(***************************************************************************)
EXTENDS Integers, Sequences, FiniteSets

VARIABLES
    scene_objects,     \* Scene::objects   (CPU side, std::vector<SceneObject*>)
    scene_materials,   \* Scene::materials (CPU side, std::vector<Material>)
    issued,            \* history: the ids Scene::addMaterial has returned
    rSeed,             \* PRNG harness: the invocation's seed
    rPc,               \* PRNG harness: "idle" | "sampling" (inside the while loop)
    rAttempts,         \* PRNG harness: loop iterations of the current call
    rDraws,            \* PRNG harness: calls made so far
    rK,                \* PRNG harness: numerator returned by the last random()
    rPrev,             \* PRNG harness: seed before the last call, if it was random()
    rIn,               \* PRNG harness: the (x, y, time) the seed came from
    objects,           \* SSBO binding 0: ObjectData objects[]
    materials,         \* SSBO binding 1: MaterialData materials[]
    camera,            \* uniforms u_camera_pos, u_camera_view
    u_time,            \* uniform u_time, in thousandths of a second
    coord,             \* per invocation: integer part of gl_FragCoord.xy
    pc,                \* per invocation: position in main()/trace()
    seed,              \* per invocation: the global uint seed
    r,                 \* per invocation: trace()'s working ray
    depth,             \* per invocation: trace()'s loop counter
    attenuation,       \* per invocation: trace()'s cumulative attenuation
    final_color,       \* per invocation: trace()'s accumulated colour
    hit_rec,           \* per invocation: the HitInfo of the last iteration
    FragColor,         \* per invocation: the shader's output
    obs                \* per invocation: history of the last loop iteration

sceneVars == <<scene_objects, scene_materials, issued>>
rngVars == <<rSeed, rPc, rAttempts, rDraws, rK, rPrev, rIn>>
frameVars == <<objects, materials, camera, u_time, coord>>
pixelVars == <<pc, seed, r, depth, attenuation, final_color, hit_rec, FragColor, obs>>
vars == <<sceneVars, rngVars, frameVars, pixelVars>>

(***************************************************************************)
(* Bounds of the model.                                                    *)
(***************************************************************************)
MaxMaterials == 2
MaxObjects == 2
MaxDraws == 2
MaxAttempts == 22
NumPixels == 2

(***************************************************************************)
(* float: fixed-point arithmetic.                                          *)
(***************************************************************************)
ONE == 1000

abs(x) == IF x < 0 THEN -x ELSE x

min(a, b) == IF a < b THEN a ELSE b

Sgn(a, b) == IF (a < 0) = (b < 0) THEN 1 ELSE -1

\* a * b, rounded to nearest; the larger factor is split so that no
\* intermediate product leaves the machine integers.
MulAbs(A, B) == (A \div ONE) * B + ((A % ONE) * B + ONE \div 2) \div ONE

Mul(a, b) ==
    IF abs(a) >= abs(b) THEN Sgn(a, b) * MulAbs(abs(a), abs(b))
                        ELSE Sgn(a, b) * MulAbs(abs(b), abs(a))

\* a / b, rounded to nearest.
DivAbs(A, B) == (A \div B) * ONE + ((A % B) * ONE + B \div 2) \div B

Div(a, b) == Sgn(a, b) * DivAbs(abs(a), abs(b))

RECURSIVE ISqrtIter(_, _, _)
ISqrtIter(n, lo, hi) ==
    IF lo >= hi THEN lo
    ELSE LET mid == (lo + hi + 1) \div 2
         IN IF mid * mid <= n THEN ISqrtIter(n, mid, hi)
                              ELSE ISqrtIter(n, lo, mid - 1)

\* sqrt(x) for x >= 0
sqrt(x) == ISqrtIter(x * ONE, 0, 46340)

(***************************************************************************)
(* vec3                                                                    *)
(***************************************************************************)
vec3(x, y, z) == <<x, y, z>>

VAdd(a, b) == <<a[1] + b[1], a[2] + b[2], a[3] + b[3]>>

VSub(a, b) == <<a[1] - b[1], a[2] - b[2], a[3] - b[3]>>

VNeg(a) == <<-a[1], -a[2], -a[3]>>

VScale(a, s) == <<Mul(a[1], s), Mul(a[2], s), Mul(a[3], s)>>

VMul(a, b) == <<Mul(a[1], b[1]), Mul(a[2], b[2]), Mul(a[3], b[3])>>

dot(a, b) == Mul(a[1], b[1]) + Mul(a[2], b[2]) + Mul(a[3], b[3])

length(a) == sqrt(dot(a, a))

normalize(a) ==
    LET Scaled(len) == <<Div(a[1], len), Div(a[2], len), Div(a[3], len)>>
    IN Scaled(length(a))

mix(a, b, t) == VAdd(VScale(a, ONE - t), VScale(b, t))

(***************************************************************************)
(* uint: 32-bit unsigned arithmetic on <<hi, lo>> halves.                  *)
(***************************************************************************)
HALF == 65536

U32(n) == <<(n \div HALF) % HALF, n % HALF>>

U32Add(a, b) ==
    LET lo == a[2] + b[2]
    IN <<(a[1] + b[1] + lo \div HALF) % HALF, lo % HALF>>

\* a * m mod 2^32 for a constant m whose low half is below 2^15
U32MulC(a, m) ==
    LET ml == m % HALF
        mh == m \div HALF
        lo == a[2] * ml
    IN <<(a[1] * ml + a[2] * mh + lo \div HALF) % HALF, lo % HALF>>

RECURSIVE And16(_, _)
And16(a, b) ==
    IF a = 0 \/ b = 0 THEN 0
    ELSE 2 * And16(a \div 2, b \div 2) + (IF a % 2 = 1 /\ b % 2 = 1 THEN 1 ELSE 0)

\* a & m for a constant m below 2^31; the result fits a machine integer
U32AndC(a, m) == And16(a[1], m \div HALF) * HALF + And16(a[2], m % HALF)

(***************************************************************************)
(* PRNG (shader lines 90-101)                                              *)
(***************************************************************************)
SEED_X == 1973
SEED_Y == 9277
SEED_T == 26699
LCG_MUL == 1664525
LCG_INC == 1013904223
RAND_MASK == 16777215
RAND_DIV == 16777216

\* uint seed = uint(gl_FragCoord.x) * 1973 + uint(gl_FragCoord.y) * 9277
\*           + uint(u_time * 1000.0) * 26699;
InitialSeed(x, y, tms) ==
    U32Add(U32Add(U32MulC(U32(x), SEED_X), U32MulC(U32(y), SEED_Y)),
           U32MulC(U32(tms), SEED_T))

LcgNoIncrement(s) == U32MulC(s, LCG_MUL)

\* seed = seed * uint(1664525) + uint(1013904223);
LcgStep(s) == U32Add(U32MulC(s, LCG_MUL), U32(LCG_INC))

WideMask(s) == U32AndC(s, 2 * RAND_MASK + 1)

\* seed & uint(0x00FFFFFF)
RandBits(s) == U32AndC(s, RAND_MASK)

\* float random(): the new seed and the numerator k of the result k / 2^24
random(s) ==
    LET s1 == LcgStep(s)
    IN [seed |-> s1, k |-> RandBits(s1)]

\* a random() result as a fixed-point float
RandToFloat(k) ==
    LET q == k \div 4096
        rem == k % 4096
    IN (q * ONE + (rem * ONE) \div 4096) \div 4096

\* x * x for |x| <= 2^23, as <<h, l>> with x * x = h * 2^24 + l
SquareWide(x) ==
    LET a == abs(x)
        h == a \div 4096
        l == a % 4096
    IN <<h * h + (2 * h * l) \div 4096, ((2 * h * l) % 4096) * 4096 + l * l>>

\* dot(p, p) < 1.0 for p = k * 2 / 2^24 - 1 in each component, evaluated on
\* the exact values (k - 2^23) / 2^23
InUnitSphere(k1, k2, k3) ==
    LET hb == RAND_DIV \div 2
        a == SquareWide(k1 - hb)
        b == SquareWide(k2 - hb)
        c == SquareWide(k3 - hb)
    IN (a[1] + b[1] + c[1]) + (a[2] + b[2] + c[2]) \div RAND_DIV < RAND_DIV \div 4

\* one iteration of the while (true) loop of random_in_unit_sphere
SphereAttempt(s) ==
    LET d1 == random(s)
        d2 == random(d1.seed)
        d3 == random(d2.seed)
    IN [seed |-> d3.seed,
        accept |-> InUnitSphere(d1.k, d2.k, d3.k),
        p |-> vec3(RandToFloat(d1.k) * 2 - ONE,
                   RandToFloat(d2.k) * 2 - ONE,
                   RandToFloat(d3.k) * 2 - ONE)]

\* while (true) { ...; if (dot(p, p) < 1.0) return p; } after attempt a
RECURSIVE SphereLoop(_)
SphereLoop(a) ==
    IF a.accept THEN [seed |-> a.seed, p |-> a.p]
                ELSE SphereLoop(SphereAttempt(a.seed))

\* vec3 random_in_unit_sphere(): loops until an attempt is accepted
random_in_unit_sphere(s) == SphereLoop(SphereAttempt(s))

(***************************************************************************)
(* CPU data structures (lines 275-307)                                     *)
(***************************************************************************)
MAT_LAMBERTIAN == 0
MAT_METAL == 1
MAT_GLASS == 2
MAT_EMISSIVE == 3
TYPE_SPHERE == 0
TYPE_PLANE == 2

\* struct Material (the name is left out)
Material(type, color, emission, metallic, roughness, ior) ==
    [type |-> type, color |-> color, emission |-> emission,
     metallic |-> metallic, roughness |-> roughness, ior |-> ior]

\* Sphere(pos, r, matId): SceneObject(matId) sets id(-1), rotation(1.0f)
Sphere(pos, rad, matId) ==
    [id |-> -1, position |-> pos, materialId |-> matId,
     type |-> TYPE_SPHERE, radius |-> rad]

\* Plane(pos, matId); getGPUData leaves radius value-initialised
Plane(pos, matId) ==
    [id |-> -1, position |-> pos, materialId |-> matId,
     type |-> TYPE_PLANE, radius |-> 0]

AddMaterialReturnsSize(mats, mat) ==
    [materials |-> Append(mats, mat), id |-> Len(Append(mats, mat))]

\* int addMaterial(mat) { materials.push_back(mat); return materials.size() - 1; }
addMaterial(mats, mat) ==
    [materials |-> Append(mats, mat), id |-> Len(Append(mats, mat)) - 1]

\* void addObject(obj) { obj->id = objects.size(); objects.push_back(obj); }
addObject(objs, obj) == Append(objs, [obj EXCEPT !.id = Len(objs)])

\* getModelMatrix() = translate(position) * rotation with rotation the
\* identity: column 3 is the position and the image of +Y is +Y.
\* getGPUData(): the ObjectData the shader reads.
getGPUData(obj) ==
    [translation |-> obj.position, yAxis |-> vec3(0, ONE, 0),
     materialIndex |-> obj.materialId, type |-> obj.type, radius |-> obj.radius]

\* lines 339-340: object_gpu_data
ObjectBuffer(objs) == [i \in 1..Len(objs) |-> getGPUData(objs[i])]

\* lines 341-344: material_gpu_data
MaterialBuffer(mats) ==
    [i \in 1..Len(mats) |->
        [baseColor |-> mats[i].color,
         properties |-> <<mats[i].metallic, mats[i].roughness, mats[i].ior>>,
         emission |-> mats[i].emission,
         type |-> mats[i].type]]

(***************************************************************************)
(* Intersection functions (shader lines 103-158)                           *)
(***************************************************************************)
EPSILON == ONE \div 1000
T_FAR == 10000
MAX_DEPTH == 8

Ray(origin, direction) == [origin |-> origin, direction |-> direction]

\* vec3 reflect(v, n) { return v - 2.0 * dot(v, n) * n; }
reflect(v, n) == VSub(v, VScale(n, 2 * dot(v, n)))

\* vec3 refract(uv, n, etai_over_etat)
refract(uv, n, etai_over_etat) ==
    LET Sum(r_out_perp) ==
            VAdd(r_out_perp,
                 VScale(n, -sqrt(abs(ONE - dot(r_out_perp, r_out_perp)))))
        From(cos_theta) == Sum(VScale(VAdd(uv, VScale(n, cos_theta)), etai_over_etat))
    IN From(min(dot(VNeg(uv), n), ONE))

FrontFaceNonStrict(dir, outward_normal) == dot(dir, outward_normal) <= 0

FlippedNormal(front_face, outward_normal) ==
    IF front_face THEN VNeg(outward_normal) ELSE outward_normal

\* rec.front_face = dot(r.direction, outward_normal) < 0.0;
FrontFace(dir, outward_normal) == dot(dir, outward_normal) < 0

\* rec.normal = rec.front_face ? outward_normal : -outward_normal;
FaceNormal(front_face, outward_normal) ==
    IF front_face THEN outward_normal ELSE VNeg(outward_normal)

\* void set_face_normal(inout HitInfo rec, Ray r, vec3 outward_normal)
set_face_normal(rec, ray, outward_normal) ==
    LET Set(front_face) ==
            [rec EXCEPT !.front_face = front_face,
                        !.normal = FaceNormal(front_face, outward_normal)]
    IN Set(FrontFace(ray.direction, outward_normal))

\* lines 122-130: the ray parameter intersect_sphere tests, if there is one
SphereT(ray, obj) ==
    LET Pick(t1, t2) ==
            [some |-> TRUE, t |-> IF t1 < EPSILON THEN t2 ELSE t1,
             larger |-> t1 < EPSILON]
        Roots(a, b, discriminant) ==
            IF discriminant >= 0
            THEN Pick(Div(-b - sqrt(discriminant), a), Div(-b + sqrt(discriminant), a))
            ELSE [some |-> FALSE, t |-> 0, larger |-> FALSE]
        Quadratic(a, b, c) == Roots(a, b, Mul(b, b) - Mul(a, c))
        From(oc) ==
            Quadratic(dot(ray.direction, ray.direction), dot(oc, ray.direction),
                      dot(oc, oc) - Mul(obj.radius, obj.radius))
    IN From(VSub(ray.origin, obj.translation))

\* lines 144-149: the ray parameter intersect_plane tests, if there is one
PlaneT(ray, obj) ==
    LET Test(plane_normal, plane_point, denom) ==
            IF abs(denom) > EPSILON
            THEN [some |-> TRUE,
                  t |-> Div(dot(VSub(plane_point, ray.origin), plane_normal), denom),
                  larger |-> FALSE]
            ELSE [some |-> FALSE, t |-> 0, larger |-> FALSE]
        From(plane_normal) ==
            Test(plane_normal, obj.translation, dot(plane_normal, ray.direction))
    IN From(normalize(obj.yAxis))

LastHitWins(t, rec) == t > EPSILON

\* if (t > 0.001 && t < hit_rec.t)
Accepts(t, rec) == t > EPSILON /\ t < rec.t

\* void intersect_sphere(Ray r, inout HitInfo hit_rec, int object_index)
intersect_sphere(ray, hrec, obj) ==
    LET Record(t, point) ==
            set_face_normal(
                [hrec EXCEPT !.is_hit = TRUE, !.t = t, !.point = point,
                             !.materialIndex = obj.materialIndex],
                ray, normalize(VSub(point, obj.translation)))
        Test(c) ==
            IF c.some /\ Accepts(c.t, hrec)
            THEN Record(c.t, VAdd(ray.origin, VScale(ray.direction, c.t)))
            ELSE hrec
    IN Test(SphereT(ray, obj))

\* void intersect_plane(Ray r, inout HitInfo hit_rec, int object_index)
intersect_plane(ray, hrec, obj) ==
    LET Test(c) ==
            IF c.some /\ Accepts(c.t, hrec)
            THEN set_face_normal(
                     [hrec EXCEPT !.is_hit = TRUE, !.t = c.t,
                                  !.point = VAdd(ray.origin, VScale(ray.direction, c.t)),
                                  !.materialIndex = obj.materialIndex],
                     ray, normalize(obj.yAxis))
            ELSE hrec
    IN Test(PlaneT(ray, obj))

\* HitInfo hit_rec; hit_rec.is_hit = false; hit_rec.t = 10000.0;
\* (the other fields are not initialised and are read only after a hit)
FreshHit ==
    [is_hit |-> FALSE, t |-> T_FAR * ONE, point |-> vec3(0, 0, 0),
     normal |-> vec3(0, 0, 0), materialIndex |-> 0, front_face |-> FALSE]

\* for (int i = 0; i < objects.length(); ++i) { ... }
RECURSIVE ScanFrom(_, _, _, _)
ScanFrom(ray, objs, i, rec) ==
    IF i > Len(objs) THEN rec
    ELSE ScanFrom(ray, objs, i + 1,
            IF objs[i].type = TYPE_SPHERE THEN intersect_sphere(ray, rec, objs[i])
            ELSE IF objs[i].type = TYPE_PLANE THEN intersect_plane(ray, rec, objs[i])
            ELSE rec)

Scan(ray, objs) == ScanFrom(ray, objs, 1, FreshHit)

(***************************************************************************)
(* Material logic (shader lines 161-200)                                   *)
(***************************************************************************)
\* pow(x, 5.0)
pow5(x) == Mul(Mul(Mul(Mul(x, x), x), x), x)

MetalScattersNonStrict(direction, normal) == dot(direction, normal) >= 0

\* return (dot(scattered.direction, rec.normal) > 0.0);
MetalScatters(direction, normal) == dot(direction, normal) > 0

\* if (mat.type == MAT_LAMBERTIAN) { ... return true; }
ScatterLambertian(r_in, rec, mat, s) ==
    LET Out(sum, s1) ==
            [ok |-> TRUE, attenuation |-> mat.baseColor,
             scattered |-> Ray(rec.point,
                 normalize(IF length(sum) < EPSILON THEN rec.normal ELSE sum)),
             seed |-> s1]
        From(rs) == Out(VAdd(rec.normal, rs.p), rs.seed)
    IN From(random_in_unit_sphere(s))

\* if (mat.type == MAT_METAL) { ... }
ScatterMetal(r_in, rec, mat, s) ==
    LET Out(direction, s1) ==
            [ok |-> MetalScatters(direction, rec.normal),
             attenuation |-> mat.baseColor,
             scattered |-> Ray(rec.point, direction),
             seed |-> s1]
        From(reflected, rs) ==
            Out(normalize(VAdd(reflected, VScale(rs.p, mat.properties[2]))), rs.seed)
    IN From(reflect(r_in.direction, rec.normal), random_in_unit_sphere(s))

\* if (mat.type == MAT_GLASS) { ... return true; }
\* random() is drawn only when cannot_refract is false (|| short-circuits)
ScatterGlass(r_in, rec, mat, s) ==
    LET Out(refraction_ratio, cannot_refract, reflects, draw) ==
            [ok |-> TRUE, attenuation |-> mat.baseColor,
             scattered |-> Ray(rec.point, normalize(
                 IF reflects
                 THEN reflect(r_in.direction, rec.normal)
                 ELSE refract(r_in.direction, rec.normal, refraction_ratio))),
             seed |-> IF cannot_refract THEN s ELSE draw.seed]
        Decide(refraction_ratio, cannot_refract, reflectance, draw) ==
            Out(refraction_ratio, cannot_refract,
                cannot_refract \/ reflectance > RandToFloat(draw.k), draw)
        Fresnel(refraction_ratio, cos_theta, sin_theta, r0) ==
            Decide(refraction_ratio, Mul(refraction_ratio, sin_theta) > ONE,
                   r0 + Mul(ONE - r0, pow5(ONE - cos_theta)), random(s))
        Schlick(refraction_ratio, cos_theta, r0root) ==
            Fresnel(refraction_ratio, cos_theta,
                    sqrt(ONE - Mul(cos_theta, cos_theta)), Mul(r0root, r0root))
        From(refraction_ratio, cos_theta) ==
            Schlick(refraction_ratio, cos_theta,
                    Div(ONE - refraction_ratio, ONE + refraction_ratio))
    IN From(IF rec.front_face THEN Div(ONE, mat.properties[3]) ELSE mat.properties[3],
            min(dot(VNeg(r_in.direction), rec.normal), ONE))

\* bool scatter(Ray r_in, HitInfo rec, out vec3 attenuation, out Ray scattered)
\* (scattered is left unwritten by the final return false)
scatter(r_in, rec, mats, s) ==
    LET By(mat) ==
            IF mat.type = MAT_LAMBERTIAN THEN ScatterLambertian(r_in, rec, mat, s)
            ELSE IF mat.type = MAT_METAL THEN ScatterMetal(r_in, rec, mat, s)
            ELSE IF mat.type = MAT_GLASS THEN ScatterGlass(r_in, rec, mat, s)
            ELSE [ok |-> FALSE, attenuation |-> mat.baseColor,
                  scattered |-> r_in, seed |-> s]
    IN By(mats[rec.materialIndex + 1])

(***************************************************************************)
(* Main tracing function (shader lines 204-245)                            *)
(***************************************************************************)
LoopContinuesInclusive(d) == d <= MAX_DEPTH

\* for (int depth = 0; depth < MAX_DEPTH; ++depth)
LoopContinues(d) == d < MAX_DEPTH

AttenuateAdd(att, current_attenuation) == VAdd(att, current_attenuation)

\* attenuation *= current_attenuation;
Attenuate(att, current_attenuation) == VMul(att, current_attenuation)

\* mix(vec3(1.0, 1.0, 1.0), vec3(0.5, 0.7, 1.0), t), t = 0.5 * (r.direction.y + 1.0)
Background(direction) ==
    mix(vec3(ONE, ONE, ONE), vec3(ONE \div 2, (7 * ONE) \div 10, ONE),
        Mul(ONE \div 2, direction[2] + ONE))

NoObs ==
    [scans |-> 0, scatters |-> 0, exit |-> "none", seedBefore |-> U32(0),
     ray_in |-> Ray(vec3(0, 0, 0), vec3(0, 0, 0)),
     attBefore |-> vec3(ONE, ONE, ONE), colorBefore |-> vec3(0, 0, 0),
     emitted |-> vec3(0, 0, 0), didScatter |-> FALSE,
     scattered |-> Ray(vec3(0, 0, 0), vec3(0, 0, 0))]

\* vec3 final_color = vec3(0.0); vec3 attenuation = vec3(1.0);
TraceStart(ray, s) ==
    [r |-> ray, seed |-> s, depth |-> 0, attenuation |-> vec3(ONE, ONE, ONE),
     final_color |-> vec3(0, 0, 0), hit_rec |-> FreshHit, running |-> TRUE,
     obs |-> NoObs]

\* One iteration of the for loop: lines 210-242 and, unless it breaks, ++depth.
\* obs records what the iteration saw.
Iteration(st, objs, mats) ==
    LET base == [st.obs EXCEPT !.scans = @ + 1, !.ray_in = st.r,
                               !.seedBefore = st.seed,
                               !.attBefore = st.attenuation,
                               !.colorBefore = st.final_color]
        Scattered(rec, emitted, sc, att) ==
            [st EXCEPT !.hit_rec = rec, !.seed = sc.seed,
                       !.attenuation = att,
                       !.r = sc.scattered,
                       !.final_color = VAdd(@, VMul(emitted, att)),
                       !.depth = @ + 1,
                       !.obs = [base EXCEPT !.scatters = @ + 1, !.emitted = emitted,
                                            !.didScatter = TRUE,
                                            !.scattered = sc.scattered]]
        Hit(rec, emitted, sc) ==
            IF sc.ok
            THEN Scattered(rec, emitted, sc, Attenuate(st.attenuation, sc.attenuation))
            ELSE [st EXCEPT !.hit_rec = rec, !.seed = sc.seed,
                            !.final_color = VAdd(@, VMul(emitted, st.attenuation)),
                            !.running = FALSE,
                            !.obs = [base EXCEPT !.scatters = @ + 1,
                                                 !.emitted = emitted,
                                                 !.didScatter = FALSE,
                                                 !.scattered = sc.scattered,
                                                 !.exit = "declined"]]
        Shade(rec) ==
            IF rec.is_hit
            THEN Hit(rec, mats[rec.materialIndex + 1].emission,
                     scatter(st.r, rec, mats, st.seed))
            ELSE [st EXCEPT !.hit_rec = rec,
                            !.final_color =
                                VAdd(@, VMul(Background(st.r.direction), st.attenuation)),
                            !.running = FALSE,
                            !.obs = [base EXCEPT !.exit = "miss"]]
    IN Shade(Scan(st.r, objs))

\* vec3 trace(Ray r), run to completion from a loop state
RECURSIVE TraceFrom(_, _, _)
TraceFrom(st, objs, mats) ==
    IF st.running /\ LoopContinues(st.depth)
    THEN TraceFrom(Iteration(st, objs, mats), objs, mats)
    ELSE st.final_color

trace(ray, s, objs, mats) == TraceFrom(TraceStart(ray, s), objs, mats)

(***************************************************************************)
(* Fragment shader main (lines 247-270)                                    *)
(***************************************************************************)
SCREEN_WIDTH == 1024
SCREEN_HEIGHT == 768
TAN_HALF_FOV == 577

\* TexCoords at the centre of pixel (x, y): the quad's aPos interpolated
TexCoords(x, y) ==
    <<Div(x * ONE + ONE \div 2, SCREEN_WIDTH * ONE),
      Div(y * ONE + ONE \div 2, SCREEN_HEIGHT * ONE)>>

\* glUniform1f(aspectLoc, (float)SCREEN_WIDTH / (float)SCREEN_HEIGHT);
u_aspect_ratio == Div(SCREEN_WIDTH * ONE, SCREEN_HEIGHT * ONE)

\* (inverse(u_camera_view) * vec4(ray_dir, 0.0)).xyz for a view matrix whose
\* upper 3x3 block is a rotation with rows view[1..3]: the transpose applied
InverseViewDir(view, d) ==
    VAdd(VAdd(VScale(view[1], d[1]), VScale(view[2], d[2])), VScale(view[3], d[3]))

\* lines 248-262
PrimaryRay(cam, x, y) ==
    LET uv == TexCoords(x, y)
        ray_dir == normalize(vec3(
            Mul(Mul(uv[1] * 2 - ONE, u_aspect_ratio), TAN_HALF_FOV),
            Mul(uv[2] * 2 - ONE, TAN_HALF_FOV),
            -ONE))
    IN Ray(cam.pos, InverseViewDir(cam.view, ray_dir))

\* log2 and exp2 on numbers scaled by 2^14, to 10 fractional bits
LOGONE == 16384

RECURSIVE Log2Frac(_, _, _)
Log2Frac(m, bit, n) ==
    IF n = 0 THEN 0
    ELSE LET sq == (m * m) \div LOGONE
         IN IF sq >= 2 * LOGONE
            THEN bit + Log2Frac(sq \div 2, bit \div 2, n - 1)
            ELSE Log2Frac(sq, bit \div 2, n - 1)

RECURSIVE Log2Norm(_, _)
Log2Norm(m, e) ==
    IF m >= 2 * LOGONE THEN Log2Norm(m \div 2, e + 1)
    ELSE IF m < LOGONE THEN Log2Norm(m * 2, e - 1)
    ELSE e * LOGONE + Log2Frac(m, LOGONE \div 2, 10)

log2(x) == Log2Norm((x * LOGONE) \div ONE, 0)

Exp2Table == <<23170, 19484, 17867, 17109, 16743, 16562, 16473, 16428, 16406, 16395>>

RECURSIVE Exp2Frac(_, _, _)
Exp2Frac(f, bit, i) ==
    IF i > 10 THEN LOGONE
    ELSE IF f >= bit
         THEN (Exp2Table[i] * Exp2Frac(f - bit, bit \div 2, i + 1)) \div LOGONE
         ELSE Exp2Frac(f, bit \div 2, i + 1)

RECURSIVE Shift(_, _)
Shift(m, e) ==
    IF e = 0 THEN m
    ELSE IF e > 0 THEN Shift(m * 2, e - 1)
    ELSE Shift(m \div 2, e + 1)

exp2(l) ==
    LET e == l \div LOGONE
        m == Exp2Frac(l % LOGONE, LOGONE \div 2, 1)
    IN (Shift(m, e) * ONE + LOGONE \div 2) \div LOGONE

\* pow(x, 1.0 / 2.2) = exp2(log2(x) / 2.2); pow(0, y) = 0
GammaChannel(x) == IF x <= 0 THEN 0 ELSE exp2((log2(x) * 5) \div 11)

\* color = pow(color, vec3(1.0/2.2)); FragColor = vec4(color, 1.0);
ToneMap(color) ==
    <<GammaChannel(color[1]), GammaChannel(color[2]), GammaChannel(color[3]), ONE>>

(***************************************************************************)
(* Inputs: scenes built through the Scene interface, camera snapshots,     *)
(* pixel coordinates and times.                                            *)
(***************************************************************************)
gray(v) == vec3(v, v, v)

milli(n) == (n * ONE) \div 1000

pos(x, y, z) == vec3(milli(x), milli(y), milli(z))

RECURSIVE AddMaterials(_, _, _)
AddMaterials(mats, ids, todo) ==
    IF todo = <<>> THEN [materials |-> mats, ids |-> ids]
    ELSE LET res == addMaterial(mats, Head(todo))
         IN AddMaterials(res.materials, Append(ids, res.id), Tail(todo))

RECURSIVE AddObjects(_, _)
AddObjects(objs, todo) ==
    IF todo = <<>> THEN objs
    ELSE AddObjects(addObject(objs, Head(todo)), Tail(todo))

\* the scene main() builds (lines 327-336)
ProgramScene ==
    LET m == AddMaterials(<<>>, <<>>, <<
            Material(MAT_LAMBERTIAN, gray(milli(500)), gray(0), 0, ONE, ONE),
            Material(MAT_GLASS, gray(ONE), gray(0), 0, 0, milli(1520)),
            Material(MAT_METAL, gray(milli(800)), gray(0), ONE, 0, ONE),
            Material(MAT_METAL, vec3(milli(800), milli(600), milli(200)), gray(0),
                     ONE, milli(300), ONE)>>)
    IN [materials |-> m.materials, ids |-> m.ids,
        objects |-> AddObjects(<<>>, <<
            Plane(pos(0, -500, 0), m.ids[1]),
            Sphere(pos(0, 0, 0), milli(500), m.ids[2]),
            Sphere(pos(-1200, 0, 0), milli(500), m.ids[3]),
            Sphere(pos(1200, 0, 0), milli(500), m.ids[4])>>)]

\* two mirror planes facing each other, an emissive sphere off to the side
MirrorScene ==
    LET m == AddMaterials(<<>>, <<>>, <<
            Material(MAT_METAL, gray(milli(500)), gray(0), ONE, 0, ONE),
            Material(MAT_EMISSIVE, gray(ONE), gray(ONE), 0, 0, ONE)>>)
    IN [materials |-> m.materials, ids |-> m.ids,
        objects |-> AddObjects(<<>>, <<
            Plane(pos(0, -1000, 0), m.ids[1]),
            Plane(pos(0, 1000, 0), m.ids[1]),
            Sphere(pos(9000, 0, 0), milli(500), m.ids[2])>>)]

\* a diffuse emitter in front of a lamp, and a rough metal sphere
EmitterScene ==
    LET m == AddMaterials(<<>>, <<>>, <<
            Material(MAT_LAMBERTIAN, gray(milli(500)), gray(ONE), 0, ONE, ONE),
            Material(MAT_EMISSIVE, gray(ONE), vec3(ONE, milli(500), 0), 0, 0, ONE),
            Material(MAT_METAL, gray(milli(500)), gray(0), ONE, milli(500), ONE)>>)
    IN [materials |-> m.materials, ids |-> m.ids,
        objects |-> AddObjects(<<>>, <<
            Sphere(pos(0, 0, -8000), milli(1000), m.ids[2]),
            Sphere(pos(0, 0, -4000), milli(1000), m.ids[1]),
            Sphere(pos(500, 0, 4000), milli(500), m.ids[3])>>)]

\* a mirror sphere whose edge the central ray grazes, a glass ball around
\* the second camera, an over-bright ("artistic") ground far below
GrazeScene ==
    LET m == AddMaterials(<<>>, <<>>, <<
            Material(MAT_METAL, gray(milli(800)), gray(0), ONE, 0, ONE),
            Material(MAT_GLASS, gray(ONE), gray(0), 0, 0, milli(1500)),
            Material(MAT_LAMBERTIAN, gray(milli(1500)), gray(0), 0, ONE, ONE)>>)
    IN [materials |-> m.materials, ids |-> m.ids,
        objects |-> AddObjects(<<>>, <<
            Sphere(pos(500, 0, -4000), milli(500), m.ids[1]),
            Sphere(pos(0, 0, 6000), milli(1000), m.ids[2]),
            Plane(pos(0, -30000, 0), m.ids[3])>>)]

Scenes == <<ProgramScene, MirrorScene, EmitterScene, GrazeScene>>

Identity == <<vec3(ONE, 0, 0), vec3(0, ONE, 0), vec3(0, 0, ONE)>>

\* rows right, up, -forward of lookAt for a camera looking along +Z / down -Y
LookBack == <<vec3(-ONE, 0, 0), vec3(0, ONE, 0), vec3(0, 0, -ONE)>>

LookDown == <<vec3(ONE, 0, 0), vec3(0, 0, -ONE), vec3(0, ONE, 0)>>

\* lookAt((4, 1.5, 0), (0, 0, 0), (0, 1, 0)): the program's camera at time 0
ProgramView == <<vec3(0, 0, -ONE), vec3(milli(-351), milli(936), 0),
                 vec3(milli(936), milli(351), 0)>>

Camera(p, view) == [pos |-> p, view |-> view]

\* <<scene, camera>> pairs rendered by the model
Frames == <<
    <<1, Camera(pos(4000, 1500, 0), ProgramView)>>,
    <<1, Camera(pos(0, 0, 4000), Identity)>>,
    <<2, Camera(pos(0, 0, 0), LookDown)>>,
    <<3, Camera(pos(0, 0, 0), Identity)>>,
    <<3, Camera(pos(0, 0, 0), LookBack)>>,
    <<4, Camera(pos(0, 0, 0), Identity)>>,
    <<4, Camera(pos(0, 0, 6000), Identity)>>,
    <<4, Camera(pos(0, 0, 0), LookDown)>> >>

PixelCoords == {<<512, 384>>, <<510, 382>>, <<0, 0>>}

\* u_time * 1000.0; the second value makes the seed arithmetic wrap
Times == {0, 200000}

\* seeds random_in_unit_sphere may be entered with, besides the initial ones;
\* <<31, 46643>> = 0x001FB633 is the low-24-bit state with the longest run of
\* rejected attempts
SeedSamples ==
    {<<hi, lo>> : hi \in {0, 31, 255, 32768, 65535},
                  lo \in {0, 1, 32768, 46643, 65535}}

(***************************************************************************)
(* Initial states                                                          *)
(***************************************************************************)
Inv == 1..NumPixels

SceneIdle == scene_objects = <<>> /\ scene_materials = <<>> /\ issued = {}

RngIdle ==
    /\ rSeed = U32(0) /\ rPc = "off" /\ rAttempts = 0 /\ rDraws = 0
    /\ rK = 0 /\ rPrev = U32(0) /\ rIn = <<>>

PixelsIdle(on) ==
    /\ pc = [p \in Inv |-> IF p \in on THEN "main" ELSE "off"]
    /\ seed = [p \in Inv |-> U32(0)]
    /\ r = [p \in Inv |-> Ray(vec3(0, 0, 0), vec3(0, 0, 0))]
    /\ depth = [p \in Inv |-> 0]
    /\ attenuation = [p \in Inv |-> vec3(ONE, ONE, ONE)]
    /\ final_color = [p \in Inv |-> vec3(0, 0, 0)]
    /\ hit_rec = [p \in Inv |-> FreshHit]
    /\ FragColor = [p \in Inv |-> <<0, 0, 0, 0>>]
    /\ obs = [p \in Inv |-> NoObs]

\* the frame's snapshot: buffers uploaded (lines 339-355), uniforms set
FrameLoaded(f, on) ==
    LET sc == Scenes[Frames[f][1]]
    IN /\ scene_objects = sc.objects
       /\ scene_materials = sc.materials
       /\ issued = {sc.ids[i] : i \in 1..Len(sc.ids)}
       /\ objects = ObjectBuffer(sc.objects)
       /\ materials = MaterialBuffer(sc.materials)
       /\ camera = Frames[f][2]
       /\ u_time \in Times
       /\ coord \in [Inv -> PixelCoords]
       /\ \A p \in Inv \ on : coord[p] = <<0, 0>>

FrameIdle ==
    /\ objects = <<>> /\ materials = <<>>
    /\ camera = Camera(vec3(0, 0, 0), Identity)
    /\ u_time = 0 /\ coord = [p \in Inv |-> <<0, 0>>]

\* one shader invocation per frame
Init ==
    /\ \E f \in 1..Len(Frames) : FrameLoaded(f, {1})
    /\ RngIdle
    /\ PixelsIdle({1})

\* NumPixels invocations of one frame
FrameInit ==
    /\ \E f \in {1, 5} : FrameLoaded(f, Inv)
    /\ RngIdle
    /\ PixelsIdle(Inv)

SceneInit == SceneIdle /\ RngIdle /\ FrameIdle /\ PixelsIdle({})

RngInputs == {<<0, 0, 0>>, <<512, 384, 0>>, <<1023, 767, 200000>>, <<3, 5, 160866>>}

RngInit ==
    /\ SceneIdle /\ FrameIdle /\ PixelsIdle({})
    /\ rPc = "idle" /\ rAttempts = 0 /\ rDraws = 0 /\ rK = 0
    /\ \/ /\ rIn \in RngInputs
          /\ rSeed = InitialSeed(rIn[1], rIn[2], rIn[3])
       \/ /\ rIn = <<>>
          /\ rSeed \in SeedSamples
    /\ rPrev = rSeed

(***************************************************************************)
(* Scene construction                                                      *)
(***************************************************************************)
MaterialChoices ==
    {Material(MAT_LAMBERTIAN, gray(ONE \div 2), gray(0), 0, ONE, ONE),
     Material(MAT_EMISSIVE, gray(ONE), gray(ONE), 0, 0, ONE)}

\* the int a caller may pass as matId
MatIdArgs == -1..MaxMaterials

ObjectChoices ==
    {Sphere(vec3(0, 0, 0), ONE \div 2, id) : id \in MatIdArgs}
        \cup {Plane(vec3(0, -ONE \div 2, 0), id) : id \in MatIdArgs}

\* scene.addMaterial(mat)
AddMaterial ==
    /\ Len(scene_materials) < MaxMaterials
    /\ \E mat \in MaterialChoices :
          LET res == addMaterial(scene_materials, mat)
          IN /\ scene_materials' = res.materials
             /\ issued' = issued \cup {res.id}
    /\ UNCHANGED <<scene_objects, rngVars, frameVars, pixelVars>>

\* scene.addObject(new Sphere(...)) / scene.addObject(new Plane(...))
AddObject ==
    /\ Len(scene_objects) < MaxObjects
    /\ \E obj \in ObjectChoices : scene_objects' = addObject(scene_objects, obj)
    /\ UNCHANGED <<scene_materials, issued, rngVars, frameVars, pixelVars>>

SceneNext == AddMaterial \/ AddObject

SceneSpec == SceneInit /\ [][SceneNext]_vars

(***************************************************************************)
(* The PRNG on its own                                                     *)
(***************************************************************************)
\* a call of random()
RngRandom ==
    /\ rPc = "idle" /\ rDraws < MaxDraws
    /\ LET d == random(rSeed)
       IN rSeed' = d.seed /\ rK' = d.k
    /\ rPrev' = rSeed
    /\ rDraws' = rDraws + 1
    /\ UNCHANGED <<rPc, rAttempts, rIn, sceneVars, frameVars, pixelVars>>

\* a call of random_in_unit_sphere() enters while (true)
RngSphereCall ==
    /\ rPc = "idle" /\ rDraws < MaxDraws
    /\ rPc' = "sampling"
    /\ rAttempts' = 0
    /\ rDraws' = rDraws + 1
    /\ UNCHANGED <<rSeed, rK, rPrev, rIn, sceneVars, frameVars, pixelVars>>

\* one iteration of the loop: three draws, return if dot(p, p) < 1.0
RngSphereAttempt ==
    /\ rPc = "sampling" /\ rAttempts < MaxAttempts
    /\ LET a == SphereAttempt(rSeed)
       IN /\ rSeed' = a.seed
          /\ rPrev' = a.seed
          /\ rPc' = IF a.accept THEN "idle" ELSE "sampling"
    /\ rAttempts' = rAttempts + 1
    /\ UNCHANGED <<rK, rDraws, rIn, sceneVars, frameVars, pixelVars>>

RngNext == RngRandom \/ RngSphereCall \/ RngSphereAttempt

RngSpec == RngInit /\ [][RngNext]_vars

(***************************************************************************)
(* Shader invocations                                                      *)
(***************************************************************************)
SharedSeedCell(p) == 1

\* uint seed: a global of the shader, one instance per invocation
SeedCell(p) == p

\* the global initialiser of seed, then main() up to the call of trace()
Begin(p) ==
    /\ pc[p] = "main"
    /\ \E st \in {TraceStart(PrimaryRay(camera, coord[p][1], coord[p][2]),
                             InitialSeed(coord[p][1], coord[p][2], u_time))} :
          /\ seed' = [seed EXCEPT ![SeedCell(p)] = st.seed]
          /\ r' = [r EXCEPT ![p] = st.r]
          /\ depth' = [depth EXCEPT ![p] = st.depth]
          /\ attenuation' = [attenuation EXCEPT ![p] = st.attenuation]
          /\ final_color' = [final_color EXCEPT ![p] = st.final_color]
          /\ hit_rec' = [hit_rec EXCEPT ![p] = st.hit_rec]
          /\ obs' = [obs EXCEPT ![p] = st.obs]
    /\ pc' = [pc EXCEPT ![p] = "loop"]
    /\ UNCHANGED <<FragColor, sceneVars, rngVars, frameVars>>

\* one iteration of trace()'s for loop
Bounce(p) ==
    /\ pc[p] = "loop" /\ LoopContinues(depth[p])
    /\ \E n \in {Iteration(
              [r |-> r[p], seed |-> seed[SeedCell(p)], depth |-> depth[p],
               attenuation |-> attenuation[p], final_color |-> final_color[p],
               hit_rec |-> hit_rec[p], running |-> TRUE, obs |-> obs[p]],
              objects, materials)} :
          /\ seed' = [seed EXCEPT ![SeedCell(p)] = n.seed]
          /\ r' = [r EXCEPT ![p] = n.r]
          /\ depth' = [depth EXCEPT ![p] = n.depth]
          /\ attenuation' = [attenuation EXCEPT ![p] = n.attenuation]
          /\ final_color' = [final_color EXCEPT ![p] = n.final_color]
          /\ hit_rec' = [hit_rec EXCEPT ![p] = n.hit_rec]
          /\ obs' = [obs EXCEPT ![p] = n.obs]
          /\ pc' = [pc EXCEPT ![p] = IF n.running THEN "loop" ELSE "return"]
    /\ UNCHANGED <<FragColor, sceneVars, rngVars, frameVars>>

\* depth < MAX_DEPTH fails: the loop ends
LoopExit(p) ==
    /\ pc[p] = "loop" /\ ~LoopContinues(depth[p])
    /\ obs' = [obs EXCEPT ![p].exit = "depth"]
    /\ pc' = [pc EXCEPT ![p] = "return"]
    /\ UNCHANGED <<seed, r, depth, attenuation, final_color, hit_rec, FragColor,
                   sceneVars, rngVars, frameVars>>

\* return final_color; then lines 268-269
Finish(p) ==
    /\ pc[p] = "return"
    /\ FragColor' = [FragColor EXCEPT ![p] = ToneMap(final_color[p])]
    /\ pc' = [pc EXCEPT ![p] = "done"]
    /\ UNCHANGED <<seed, r, depth, attenuation, final_color, hit_rec, obs,
                   sceneVars, rngVars, frameVars>>

Next == \E p \in Inv : Begin(p) \/ Bounce(p) \/ LoopExit(p) \/ Finish(p)

Spec == Init /\ [][Next]_vars

FrameSpec == FrameInit /\ [][Next]_vars

(***************************************************************************)
(* Properties                                                              *)
(***************************************************************************)
\* invocations that have run at least one loop iteration
Scanned == {p \in Inv : pc[p] \in {"loop", "return", "done"} /\ obs[p].scans > 0}

\* invocations whose last loop iteration found a hit
HitLast == {p \in Scanned : hit_rec[p].is_hit}

Channels == 1..3

\* C1: trace() runs at most MAX_DEPTH = 8 loop iterations, hence at most 8
\* object scans and at most 8 calls of scatter(), whatever the scene; when
\* the loop ends because depth reached 8, the colour is the one the eighth
\* iteration left and nothing more is added before it is returned.
C1_BoundedBounces ==
    \A p \in Inv :
        /\ obs[p].scans <= MAX_DEPTH
        /\ obs[p].scatters <= obs[p].scans
        /\ depth[p] <= MAX_DEPTH
        /\ pc[p] = "loop" => obs[p].scans = depth[p]
        /\ obs[p].exit = "depth" =>
              /\ obs[p].scans = MAX_DEPTH /\ obs[p].scatters = MAX_DEPTH
              /\ final_color[p] =
                     VAdd(obs[p].colorBefore, VMul(obs[p].emitted, attenuation[p]))
        /\ pc[p] = "done" => FragColor[p] = ToneMap(final_color[p])

\* a path that bounced eight times between the mirrors and was cut off
C1_DepthExhausted ==
    \E p \in Inv :
        pc[p] = "done" /\ obs[p].exit = "depth" /\ obs[p].scans = MAX_DEPTH

\* the whole per-pixel computation run on its own, start to end
PixelAlone(p) ==
    ToneMap(trace(PrimaryRay(camera, coord[p][1], coord[p][2]),
                  InitialSeed(coord[p][1], coord[p][2], u_time),
                  objects, materials))

\* C2: whatever the interleaving of the invocations of a frame, a finished
\* pixel's colour is the one its trace produces when run alone on the same
\* (x, y, time), scene and camera; equal inputs give equal outputs.
C2_PixelIndependent ==
    \A p \in Inv :
        pc[p] = "done" =>
            /\ FragColor[p] = PixelAlone(p)
            /\ \A q \in Inv :
                  pc[q] = "done" /\ coord[q] = coord[p] => FragColor[q] = FragColor[p]

\* two finished invocations of one frame at different pixels, both of which
\* drew random numbers, one of them at every bounce
C2_TwoPixelsDone ==
    \E p, q \in Inv :
        /\ p # q /\ pc[p] = "done" /\ pc[q] = "done"
        /\ coord[p] # coord[q]
        /\ obs[p].scatters = MAX_DEPTH /\ obs[q].scatters >= 1

\* C3: the rejection loop of random_in_unit_sphere returns: from every seed
\* it is entered with, an attempt is accepted before MaxAttempts attempts
\* have been rejected.
C3_SphereLoopReturns == rPc = "sampling" => rAttempts < MaxAttempts

\* the slowest call: accepted at the last attempt the bound allows
C3_SlowestCall == rPc = "idle" /\ rAttempts = MaxAttempts

\* C4 as stated: after any calls of addMaterial and addObject every object
\* of the scene has 0 <= materialId < materials.size().
C4_AllMaterialIdsValid ==
    \A i \in 1..Len(scene_objects) :
        /\ 0 <= scene_objects[i].materialId
        /\ scene_objects[i].materialId < Len(scene_materials)

\* C4 amended: the ids addMaterial has returned are exactly
\* 0 .. materials.size() - 1 and stay valid, so every object built with a
\* returned id has a valid material index and its lookup in the flattened
\* material buffer is in range.
C4_IssuedIdsValid ==
    /\ issued = 0..(Len(scene_materials) - 1)
    /\ \A i \in 1..Len(scene_objects) :
          scene_objects[i].materialId \in issued =>
              /\ 0 <= scene_objects[i].materialId
              /\ scene_objects[i].materialId < Len(scene_materials)
              /\ getGPUData(scene_objects[i]).materialIndex + 1
                     \in DOMAIN MaterialBuffer(scene_materials)

\* a full scene whose objects all use returned ids
C4_SceneBuilt ==
    /\ Len(scene_materials) = MaxMaterials
    /\ Len(scene_objects) = MaxObjects
    /\ \A i \in 1..Len(scene_objects) : scene_objects[i].materialId \in issued
    /\ \E i \in 1..Len(scene_objects) : scene_objects[i].materialId = MaxMaterials - 1

\* the material of the last hit
HitMaterial(p) == materials[hit_rec[p].materialIndex + 1]

\* C5: at a hit on a Metal material scatter() reports true exactly when the
\* outgoing direction normalize(reflect(incoming, normal) + roughness *
\* random_in_unit_sphere()) has a strictly positive dot product with the hit
\* normal; with roughness 0 that direction is the normalised mirror
\* reflection; when scatter() reports false the path ends at that hit.
C5_MetalScatterRule ==
    \A p \in HitLast :
        HitMaterial(p).type = MAT_METAL =>
            /\ obs[p].didScatter =
                   (dot(obs[p].scattered.direction, hit_rec[p].normal) > 0)
            /\ obs[p].scattered.direction =
                   normalize(VAdd(
                       reflect(obs[p].ray_in.direction, hit_rec[p].normal),
                       VScale(random_in_unit_sphere(obs[p].seedBefore).p,
                              HitMaterial(p).properties[2])))
            /\ HitMaterial(p).properties[2] = 0 =>
                   obs[p].scattered.direction =
                       normalize(reflect(obs[p].ray_in.direction, hit_rec[p].normal))
            /\ ~obs[p].didScatter =>
                   pc[p] \in {"return", "done"} /\ obs[p].exit = "declined"
            /\ obs[p].didScatter => obs[p].exit # "declined"

\* a mirror hit at grazing incidence: the reflection does not leave the surface
C5_MetalDeclines ==
    \E p \in HitLast :
        /\ HitMaterial(p).type = MAT_METAL
        /\ HitMaterial(p).properties[2] = 0
        /\ ~obs[p].didScatter
        /\ pc[p] = "done"

\* a * m mod 2^32 by doubling and adding
RECURSIVE RefMul(_, _)
RefMul(a, m) ==
    IF m = 0 THEN U32(0)
    ELSE IF m % 2 = 1 THEN U32Add(a, RefMul(U32Add(a, a), m \div 2))
    ELSE RefMul(U32Add(a, a), m \div 2)

\* C6: the seed starts as x*1973 + y*9277 + floor(time*1000)*26699 mod 2^32;
\* a call of random() replaces it by seed*1664525 + 1013904223 mod 2^32 and
\* returns k / 2^24 with k the low 24 bits of the new seed, so 0 <= k < 2^24
\* and the result lies in [0, 1).
C6_LcgRange ==
    /\ rSeed[1] \in 0..(HALF - 1) /\ rSeed[2] \in 0..(HALF - 1)
    /\ (rPc = "idle" /\ rDraws = 0 /\ rIn # <<>>) =>
           rSeed = U32Add(U32Add(RefMul(U32(rIn[1]), 1973), RefMul(U32(rIn[2]), 9277)),
                          RefMul(U32(rIn[3]), 26699))
    /\ rPrev # rSeed =>
           /\ rSeed = U32Add(RefMul(rPrev, 1664525), U32(1013904223))
           /\ rK = (rSeed[1] % 256) * HALF + rSeed[2]
    /\ 0 <= rK /\ rK < 16777216
    /\ 0 <= RandToFloat(rK) /\ RandToFloat(rK) < ONE

\* random() called on a seed whose product wraps, returning a large value
C6_DrawWraps ==
    /\ rPc = "idle" /\ rDraws > 0 /\ rPrev # rSeed
    /\ rPrev[1] >= HALF \div 2
    /\ rK >= 16777216 \div 2

\* C7 as stated: at every hit the emission is added weighted by the
\* attenuation as it stood before this hit's scatter attenuation, whether
\* the material scatters or declines; the attenuation is multiplied by the
\* scatter attenuation only if the material scattered.
C7_EmissionBeforeScatter ==
    \A p \in HitLast :
        /\ obs[p].emitted = HitMaterial(p).emission
        /\ final_color[p] =
               VAdd(obs[p].colorBefore, VMul(obs[p].emitted, obs[p].attBefore))
        /\ attenuation[p] =
               IF obs[p].didScatter
               THEN VMul(obs[p].attBefore, HitMaterial(p).baseColor)
               ELSE obs[p].attBefore

\* the ray parameter the intersection routine of object i tests
Candidate(p, i) ==
    IF objects[i].type = TYPE_SPHERE THEN SphereT(obs[p].ray_in, objects[i])
    ELSE PlaneT(obs[p].ray_in, objects[i])

\* objects with an intersection parameter beyond 0.001
Ahead(p) ==
    {i \in 1..Len(objects) : Candidate(p, i).some /\ Candidate(p, i).t > EPSILON}

\* ... and nearer than 10000
InRange(p) == {i \in Ahead(p) : Candidate(p, i).t < 10000 * ONE}

\* the nearest object of a non-empty set; of equally near ones the first
Nearest(p, S) ==
    CHOOSE i \in S :
        \A j \in S : \/ Candidate(p, i).t < Candidate(p, j).t
                     \/ Candidate(p, i).t = Candidate(p, j).t /\ i <= j

HitObject(p) == objects[Nearest(p, InRange(p))]

\* its outward normal at the hit point
OutwardNormal(p) ==
    IF HitObject(p).type = TYPE_SPHERE
    THEN normalize(VSub(hit_rec[p].point, HitObject(p).translation))
    ELSE normalize(HitObject(p).yAxis)

\* the ray of the last iteration started inside the sphere it hit
StartedInside(p) ==
    /\ HitObject(p).type = TYPE_SPHERE
    /\ length(VSub(obs[p].ray_in.origin, HitObject(p).translation))
           < HitObject(p).radius

\* C9: every hit record has its normal against the incoming ray:
\* dot(direction, normal) <= 0; front_face is true exactly when
\* dot(direction, outward normal) < 0, and then normal is the outward
\* normal, otherwise its negation; a ray that starts inside a sphere hits
\* it at the larger root with front_face false.
C9_NormalAgainstRay ==
    \A p \in HitLast :
        /\ dot(obs[p].ray_in.direction, hit_rec[p].normal) <= 0
        /\ hit_rec[p].front_face =
               (dot(obs[p].ray_in.direction, OutwardNormal(p)) < 0)
        /\ hit_rec[p].normal =
               IF hit_rec[p].front_face THEN OutwardNormal(p)
                                        ELSE VNeg(OutwardNormal(p))
        /\ StartedInside(p) =>
               /\ SphereT(obs[p].ray_in, HitObject(p)).larger
               /\ ~hit_rec[p].front_face

\* the camera inside the glass ball: the primary ray leaves through its wall
C9_HitFromInside ==
    \E p \in HitLast :
        /\ obs[p].scans = 1
        /\ StartedInside(p)
        /\ ~hit_rec[p].front_face
        /\ dot(obs[p].ray_in.direction, hit_rec[p].normal) < 0

\* every material has baseColor in [0, 1] and non-negative emission
ValidMaterials ==
    \A i \in DOMAIN materials :
        \A c \in Channels :
            /\ 0 <= materials[i].baseColor[c] /\ materials[i].baseColor[c] <= ONE
            /\ 0 <= materials[i].emission[c]

\* C10: with such materials each channel of the cumulative attenuation is
\* in [0, 1] and no larger than at the previous bounce, and no channel of
\* the accumulated colour is negative or smaller than before.
C10_AttenuationShrinks ==
    ValidMaterials =>
        \A p \in Inv :
            \A c \in Channels :
                /\ 0 <= attenuation[p][c] /\ attenuation[p][c] <= ONE
                /\ attenuation[p][c] <= obs[p].attBefore[c]
                /\ 0 <= final_color[p][c]
                /\ obs[p].colorBefore[c] <= final_color[p][c]

\* a path whose attenuation has shrunk in two successive bounces
C10_ShrunkTwice ==
    /\ ValidMaterials
    /\ \E p \in Scanned :
          /\ obs[p].scatters >= 2 /\ obs[p].didScatter
          /\ attenuation[p][1] < obs[p].attBefore[1]
          /\ obs[p].attBefore[1] < ONE
          /\ attenuation[p][1] > 0

====
